---- MODULE Spec2Model ----
(***************************************************************************)
(* The sampling code of "HMM basics.ipynb": the parameter tables, the      *)
(* chain-only sampling cell and generate(initial, transition, emission).   *)
(*                                                                         *)
(* Probabilities are integer hundredths (0.25 is 25); a uniform variate in *)
(* [0, 1) is an integer in 0..99.  Python lists are objects of a heap, so  *)
(* that two names can hold the same list.                                  *)
(***************************************************************************)
EXTENDS Integers, Sequences, FiniteSets, TLC

VARIABLES
    initial, transition, emission,          \* the three tables (cells 2, 4, 8)
    id2state, state2id, word2id, id2word,   \* the label maps
    rng,                                    \* np.random's global generator
    heap,                                   \* the list objects, by reference
    g_h, g_h_total, g_v_total,              \* top-level names h, h_total, v_total
    h, v, h_total, v_total,                 \* generate's locals
    pc, exc,                                \* control point; exception raised
    returned,                               \* what each generate call returned
    stdout,                                 \* the lines printed so far
    other                                   \* the suspended thread's frame

params  == <<initial, transition, emission, id2state, state2id, word2id, id2word>>
globals == <<g_h, g_h_total, g_v_total>>
frame   == <<h, v, h_total, v_total>>
vars    == <<params, rng, heap, globals, frame, pc, exc, returned, stdout, other>>

(* ------------------------------ bounds -------------------------------- *)

\* Spec stops a sampling loop whose h_total has MaxLen elements.
MaxLen == 4

\* LiveSpec keeps the last Window elements of each list.
Window == 2

\* SeedSpec seeds the generator with every stream of StreamLen variates, and
\* runs the generate cell MaxCalls times.
StreamLen == 6
MaxCalls == 2

(* ------------------------- the parameter cells ------------------------ *)

\* A Python list / numpy row written as a literal: indices start at 0.
ZeroBased(t) == [i \in 0..(Len(t) - 1) |-> t[i + 1]]

Unbound == 0 - 1

\* No second thread: the kernel runs its cells on one thread.
NoThread == [pc |-> "none", h |-> Unbound, v |-> Unbound,
             h_total |-> Unbound, v_total |-> Unbound]

\* initial with the 0.3 of Adjective written in the column of Object
NotebookInitialTypo == ZeroBased(<<70, 0, 0, 0, 30, 0>>)

NotebookInitial == ZeroBased(<<70, 30, 0, 0, 0, 0>>)

NotebookId2state ==
    (0 :> "Subject") @@ (1 :> "Adjective") @@ (2 :> "Adverb") @@
    (3 :> "Verb") @@ (4 :> "Object") @@ (5 :> "<EOS>")

\* the comprehension with one key for every value
InvertDictOneKey(d) ==
    [l \in {d[k] : k \in DOMAIN d} |-> CHOOSE k \in DOMAIN d : TRUE]

\* {d[k]: k for k in d}
InvertDict(d) ==
    [l \in {d[k] : k \in DOMAIN d} |-> CHOOSE k \in DOMAIN d : d[k] = l]

NotebookState2id == InvertDict(NotebookId2state)

NotebookTransitionRows ==
    ZeroBased(<< ZeroBased(<< 0,  0, 30, 70,  0,   0>>),
                 ZeroBased(<<40, 10,  0,  0, 50,   0>>),
                 ZeroBased(<< 0, 30,  0, 70,  0,   0>>),
                 ZeroBased(<< 0, 30, 20,  0, 50,   0>>),
                 ZeroBased(<< 0,  0,  0,  0,  0, 100>>) >>)

\* the transition table with Object's 1. one column to the left
NotebookTransitionTypo ==
    [NotebookTransitionRows EXCEPT ![4] = ZeroBased(<<0, 0, 0, 0, 100, 0>>)]

\* the transition table with an Adjective row that never leads to Object
NotebookTransitionNoObject ==
    [NotebookTransitionRows EXCEPT ![1] = ZeroBased(<<90, 10, 0, 0, 0, 0>>)]

\* the transition table with an Adverb row that keeps the chain in Adverb
NotebookTransitionTrap ==
    [NotebookTransitionRows EXCEPT ![2] = ZeroBased(<<0, 0, 100, 0, 0, 0>>)]

\* the transition table with Verb's last 0.5 one column to the right
NotebookTransitionShifted ==
    [NotebookTransitionRows EXCEPT ![3] = ZeroBased(<<0, 30, 20, 0, 0, 50>>)]

NotebookTransition == NotebookTransitionRows

\* The 6x6 table: the notebook's five rows and an identity row for <EOS>.
SquareTransition ==
    [k \in 0..5 |-> IF k \in DOMAIN NotebookTransitionRows
                       THEN NotebookTransitionRows[k]
                       ELSE [j \in 0..5 |-> IF j = k THEN 100 ELSE 0]]

\* A row-stochastic table in which no state leads to <EOS>: Object is
\* followed by Subject.
UnreachableTransition ==
    [NotebookTransitionRows EXCEPT ![4] = ZeroBased(<<100, 0, 0, 0, 0, 0>>)]

NotebookEmissionRows ==
    ZeroBased(<<
      ZeroBased(<<20, 20, 20, 20,  0,  0,  0,  0,  0,  0,  0,  0, 10, 10,   0>>),
      ZeroBased(<< 0,  0,  0,  0,  0,  0,  0,  0,  0, 50, 25, 25,  0,  0,   0>>),
      ZeroBased(<< 0,  0,  0,  0,  0,  0,  0, 25, 25, 50,  0,  0,  0,  0,   0>>),
      ZeroBased(<< 0,  0,  0,  0, 30, 40, 30,  0,  0,  0,  0,  0,  0,  0,   0>>),
      ZeroBased(<< 0,  0, 20, 20,  0,  0,  0,  0,  0,  0,  0,  0, 30, 30,   0>>),
      ZeroBased(<< 0,  0,  0,  0,  0,  0,  0,  0,  0,  0,  0,  0,  0,  0, 100>>) >>)

\* the emission table with 0.2 for 'cats' in the Subject row
NotebookEmissionTypo ==
    [NotebookEmissionRows EXCEPT ![0][12] = 20]

\* the emission table with Object's last 0.3 one column to the right
NotebookEmissionShifted ==
    [NotebookEmissionRows EXCEPT ![4][13] = 0, ![4][14] = 30]

\* the emission table with Adverb's 0.5 for 'pretty' given to 'extremely'
NotebookEmissionUnshared ==
    [NotebookEmissionRows EXCEPT ![2][8] = 75, ![2][9] = 0]

NotebookEmission == NotebookEmissionRows

NotebookWord2id ==
    ("I" :> 0) @@ ("He" :> 1) @@ ("Jack" :> 2) @@ ("Mary" :> 3) @@
    ("likes" :> 4) @@ ("loves" :> 5) @@ ("hates" :> 6) @@ ("really" :> 7) @@
    ("extremely" :> 8) @@ ("pretty" :> 9) @@ ("cute" :> 10) @@
    ("adorable" :> 11) @@ ("cats" :> 12) @@ ("dogs" :> 13) @@ ("." :> 14)

NotebookId2word == InvertDict(NotebookWord2id)

(* --------------------------- numpy and Python -------------------------- *)

\* len(initial), emission.shape[1]
num_states == Cardinality(DOMAIN initial)
num_words  == Cardinality(DOMAIN emission[0])

RECURSIVE cumsum(_, _)
\* p.cumsum()[i]
cumsum(p, i) == IF i < 0 THEN 0 ELSE p[i] + cumsum(p, i - 1)

\* np.random.choice(a, p=p) raises ValueError unless p has a entries, none
\* negative, summing to 1.
ValidP(a, p) ==
    /\ DOMAIN p = 0..(a - 1)
    /\ \A i \in DOMAIN p : p[i] >= 0
    /\ cumsum(p, a - 1) = 100

RECURSIVE searchsortedLeft(_, _, _, _)
\* searchsorted with side='left': the first index whose cdf reaches u
searchsortedLeft(p, u, i, below) ==
    IF below + p[i] >= u THEN i ELSE searchsortedLeft(p, u, i + 1, below + p[i])

RECURSIVE searchsorted(_, _, _, _)
\* cdf.searchsorted(u, side='right') from index i on, cdf[i - 1] being below:
\* the first index whose cdf exceeds u
searchsorted(p, u, i, below) ==
    IF below + p[i] > u THEN i ELSE searchsorted(p, u, i + 1, below + p[i])

\* the inverse CDF read as a 1-based position
choiceOneBased(a, p, u) == searchsorted(p, u, 0, 0) + 1

\* np.random.choice(a, p=p) on the uniform variate u: the inverse CDF
choice(a, p, u) == searchsorted(p, u, 0, 0)

\* The variates the generator can deliver, as hundredths; every table entry
\* is a multiple of 0.05, so a step of 0.05 meets every interval of every cdf.
Uniform == {5 * k : k \in 0..19}

\* One variate leaves the generator.  Unseeded, any variate may come; seeded,
\* the variates come in the order the seed fixes.
Draw(u) ==
    /\ u \in Uniform
    /\ IF rng.seeded
          THEN /\ rng.pos < Len(rng.stream)
               /\ u = rng.stream[rng.pos + 1]
               /\ rng' = [rng EXCEPT !.pos = @ + 1]
          ELSE rng' = rng

\* list.append; the model keeps the last `keep` elements of a list.
append(l, x, keep) ==
    IF Len(l) < keep THEN Append(l, x) ELSE Append(Tail(l), x)

RECURSIVE join(_, _)
\* sep.join(words)
join(sep, words) ==
    IF Len(words) = 0 THEN ""
    ELSE IF Len(words) = 1 THEN words[1]
    ELSE words[1] \o sep \o join(sep, Tail(words))

Digits == <<"0", "1", "2", "3", "4", "5", "6", "7", "8", "9",
            "10", "11", "12", "13", "14">>
\* str(list of small ints), as print(h_total) shows it
str(l) == "[" \o join(", ", [i \in 1..Len(l) |-> Digits[l[i] + 1]]) \o "]"

Raised(e) == pc' = "raised" /\ exc' = e

(* ------------------------ the chain-only cell ------------------------- *)

\* lines 323-327: the first state, and a new list holding it
ChainInit(u) ==
    /\ pc = "cell6"
    /\ IF ~ValidP(num_states, initial)
          THEN /\ Raised("ValueError")
               /\ UNCHANGED <<rng, heap, globals>>
          ELSE /\ Draw(u)
               /\ g_h' = choice(num_states, initial, u)
               /\ heap' = Append(heap, <<g_h'>>)
               /\ g_h_total' = Len(heap) + 1
               /\ pc' = "l328"
               /\ UNCHANGED <<g_v_total, exc>>
    /\ UNCHANGED <<params, other, frame, returned, stdout>>

\* line 328: while(h != state2id['<EOS>'])
ChainTest ==
    /\ pc = "l328"
    /\ IF "<EOS>" \notin DOMAIN state2id
          THEN Raised("KeyError")
          ELSE /\ pc' = IF g_h # state2id["<EOS>"] THEN "l329" ELSE "cell7"
               /\ UNCHANGED exc
    /\ UNCHANGED <<params, other, rng, heap, globals, frame, returned, stdout>>

\* lines 329-330 with the next state drawn from initial
ChainStepFromInitial(u, keep) ==
    /\ pc = "l329"
    /\ Draw(u)
    /\ g_h' = choice(num_states, initial, u)
    /\ heap' = [heap EXCEPT ![g_h_total] = append(@, g_h', keep)]
    /\ pc' = "l328"
    /\ UNCHANGED <<g_h_total, g_v_total, exc>>
    /\ UNCHANGED <<params, other, frame, returned, stdout>>

\* lines 329-330
ChainStep(u, keep) ==
    /\ pc = "l329"
    /\ IF g_h \notin DOMAIN transition
          THEN /\ Raised("IndexError")
               /\ UNCHANGED <<rng, heap, globals>>
          ELSE IF ~ValidP(num_states, transition[g_h])
          THEN /\ Raised("ValueError")
               /\ UNCHANGED <<rng, heap, globals>>
          ELSE /\ Draw(u)
               /\ g_h' = choice(num_states, transition[g_h], u)
               /\ heap' = [heap EXCEPT ![g_h_total] = append(@, g_h', keep)]
               /\ pc' = "l328"
               /\ UNCHANGED <<g_h_total, g_v_total, exc>>
    /\ UNCHANGED <<params, other, frame, returned, stdout>>

\* lines 354-355: print(h_total); print(' '.join([id2state[h] for h in h_total]))
Print7 ==
    /\ pc = "cell7"
    /\ LET hs == heap[g_h_total] IN
       IF \E i \in 1..Len(hs) : hs[i] \notin DOMAIN id2state
          THEN /\ Raised("KeyError")
               /\ stdout' = Append(stdout, str(hs))
          ELSE /\ stdout' = stdout \o
                     <<str(hs), join(" ", [i \in 1..Len(hs) |-> id2state[hs[i]]])>>
               /\ pc' = "cell8"
               /\ UNCHANGED exc
    /\ UNCHANGED <<params, other, rng, heap, globals, frame, returned>>

(* ------------------------------ generate ------------------------------ *)

\* line 484 calls generate(initial, transition, emission); lines 466-469
Call ==
    /\ pc = "cell8"
    /\ pc' = "l472"
    /\ h' = Unbound /\ v' = Unbound /\ h_total' = Unbound /\ v_total' = Unbound
    /\ UNCHANGED <<params, other, rng, heap, globals, exc, returned, stdout>>

\* lines 472-474 with the lists of the previous result cleared and used again
InitialDrawReuse(u) ==
    /\ pc = "l472"
    /\ Draw(u)
    /\ h' = choice(num_states, initial, u)
    /\ IF g_h_total # Unbound
          THEN /\ heap' = [heap EXCEPT ![g_h_total] = <<h'>>, ![g_v_total] = <<>>]
               /\ h_total' = g_h_total
               /\ v_total' = g_v_total
          ELSE /\ heap' = heap \o << <<h'>>, <<>> >>
               /\ h_total' = Len(heap) + 1
               /\ v_total' = Len(heap) + 2
    /\ pc' = "l475"
    /\ UNCHANGED <<v, exc>>
    /\ UNCHANGED <<params, other, globals, returned, stdout>>

\* lines 472-474
InitialDraw(u) ==
    /\ pc = "l472"
    /\ IF ~ValidP(num_states, initial)
          THEN /\ Raised("ValueError")
               /\ UNCHANGED <<rng, heap, frame>>
          ELSE /\ Draw(u)
               /\ h' = choice(num_states, initial, u)
               /\ heap' = heap \o << <<h'>>, <<>> >>
               /\ h_total' = Len(heap) + 1
               /\ v_total' = Len(heap) + 2
               /\ pc' = "l475"
               /\ UNCHANGED <<v, exc>>
    /\ UNCHANGED <<params, other, globals, returned, stdout>>

\* the loop test against the wrong label
WhileTestWrongLabel ==
    /\ pc = "l475"
    /\ pc' = IF h # state2id["Object"] THEN "l476" ELSE "l480"
    /\ UNCHANGED <<params, other, rng, heap, globals, frame, exc, returned, stdout>>

\* line 475: while(h != state2id['<EOS>']), state2id being the global
WhileTest ==
    /\ pc = "l475"
    /\ IF "<EOS>" \notin DOMAIN state2id
          THEN Raised("KeyError")
          ELSE /\ pc' = IF h # state2id["<EOS>"] THEN "l476" ELSE "l480"
               /\ UNCHANGED exc
    /\ UNCHANGED <<params, other, rng, heap, globals, frame, returned, stdout>>

\* the word drawn for the current state, appended to v_total
EmitWord(u, keep, next) ==
    IF h \notin DOMAIN emission
       THEN /\ Raised("IndexError")
            /\ UNCHANGED <<rng, heap, frame>>
       ELSE IF ~ValidP(num_words, emission[h])
       THEN /\ Raised("ValueError")
            /\ UNCHANGED <<rng, heap, frame>>
       ELSE /\ Draw(u)
            /\ v' = choice(num_words, emission[h], u)
            /\ heap' = [heap EXCEPT ![v_total] = append(@, v', keep)]
            /\ pc' = next
            /\ UNCHANGED <<h, h_total, v_total, exc>>

\* lines 476-477
Emit(u, keep) ==
    /\ pc = "l476"
    /\ EmitWord(u, keep, "l478")
    /\ UNCHANGED <<params, other, globals, returned, stdout>>

\* lines 478-479 with the next state drawn from initial
TransitFromInitial(u, keep) ==
    /\ pc = "l478"
    /\ Draw(u)
    /\ h' = choice(num_states, initial, u)
    /\ heap' = [heap EXCEPT ![h_total] = append(@, h', keep)]
    /\ pc' = "l475"
    /\ UNCHANGED <<v, h_total, v_total, exc>>
    /\ UNCHANGED <<params, other, globals, returned, stdout>>

\* lines 478-479 with the next state drawn from another, unseeded generator
TransitUnseeded(u, keep) ==
    /\ pc = "l478"
    /\ u \in Uniform
    /\ h' = choice(num_states, transition[h], u)
    /\ heap' = [heap EXCEPT ![h_total] = append(@, h', keep)]
    /\ pc' = "l475"
    /\ UNCHANGED <<v, h_total, v_total, exc, rng>>
    /\ UNCHANGED <<params, other, globals, returned, stdout>>

\* lines 478-479 with the row below the current state's read
TransitNextRow(u, keep) ==
    /\ pc = "l478"
    /\ IF h + 1 \notin DOMAIN transition
          THEN /\ Raised("IndexError")
               /\ UNCHANGED <<rng, heap, frame>>
          ELSE /\ Draw(u)
               /\ h' = choice(num_states, transition[h + 1], u)
               /\ heap' = [heap EXCEPT ![h_total] = append(@, h', keep)]
               /\ pc' = "l475"
               /\ UNCHANGED <<v, h_total, v_total, exc>>
    /\ UNCHANGED <<params, other, globals, returned, stdout>>

\* lines 478-479 with a cutoff on the length of h_total
TransitWithCutoff(u, keep) ==
    /\ pc = "l478"
    /\ IF Len(heap[h_total]) + 1 >= keep
          THEN /\ Raised("GenerationLengthExceeded")
               /\ UNCHANGED <<rng, heap, frame>>
          ELSE /\ Draw(u)
               /\ h' = choice(num_states, transition[h], u)
               /\ heap' = [heap EXCEPT ![h_total] = append(@, h', keep)]
               /\ pc' = "l475"
               /\ UNCHANGED <<v, h_total, v_total, exc>>
    /\ UNCHANGED <<params, other, globals, returned, stdout>>

\* lines 478-479
Transit(u, keep) ==
    /\ pc = "l478"
    /\ IF h \notin DOMAIN transition
          THEN /\ Raised("IndexError")
               /\ UNCHANGED <<rng, heap, frame>>
          ELSE IF ~ValidP(num_states, transition[h])
          THEN /\ Raised("ValueError")
               /\ UNCHANGED <<rng, heap, frame>>
          ELSE /\ Draw(u)
               /\ h' = choice(num_states, transition[h], u)
               /\ heap' = [heap EXCEPT ![h_total] = append(@, h', keep)]
               /\ pc' = "l475"
               /\ UNCHANGED <<v, h_total, v_total, exc>>
    /\ UNCHANGED <<params, other, globals, returned, stdout>>

\* line 480 without line 481: the last word is drawn and dropped
FinalEmitNoAppend(u, keep) ==
    /\ pc = "l480"
    /\ Draw(u)
    /\ v' = choice(num_words, emission[h], u)
    /\ pc' = "l482"
    /\ UNCHANGED <<params, other, heap, globals, h, h_total, v_total, exc, returned, stdout>>

\* lines 480-481 with the end marker appended without a draw
FinalEmitUndrawn(u, keep) ==
    /\ pc = "l480"
    /\ u \in Uniform
    /\ v' = choice(num_words, emission[h], u)
    /\ heap' = [heap EXCEPT ![v_total] = append(@, v', keep)]
    /\ pc' = "l482"
    /\ UNCHANGED <<params, other, rng, globals, h, h_total, v_total, exc, returned, stdout>>

\* lines 480-481
FinalEmit(u, keep) ==
    /\ pc = "l480"
    /\ EmitWord(u, keep, "l482")
    /\ UNCHANGED <<params, other, globals, returned, stdout>>

\* line 482 returns to line 484, which binds the top-level h_total, v_total;
\* lines 485-488 print the result
Return ==
    /\ pc = "l482"
    /\ g_h_total' = h_total
    /\ g_v_total' = v_total
    /\ returned' = Append(returned, <<h_total, v_total>>)
    /\ LET hs == heap[h_total]
           vs == heap[v_total]
       IN  IF \E i \in 1..Len(hs) : hs[i] \notin DOMAIN id2state
              THEN /\ Raised("KeyError")
                   /\ stdout' = Append(stdout, str(hs))
           ELSE IF \E i \in 1..Len(vs) : vs[i] \notin DOMAIN id2word
              THEN /\ Raised("KeyError")
                   /\ stdout' = stdout \o
                        <<str(hs),
                          join(" ", [i \in 1..Len(hs) |-> id2state[hs[i]]]),
                          str(vs)>>
           ELSE /\ stdout' = stdout \o
                        <<str(hs),
                          join(" ", [i \in 1..Len(hs) |-> id2state[hs[i]]]),
                          str(vs),
                          join(" ", [i \in 1..Len(vs) |-> id2word[vs[i]]])>>
                /\ pc' = "end"
                /\ UNCHANGED exc
    /\ UNCHANGED <<params, other, rng, heap, g_h, frame>>

(* --------------------------- specifications --------------------------- *)

\* The kernel after the parameter cells have run, th being the frame of a
\* second thread.
KernelOf(tr, th) ==
    /\ initial = NotebookInitial
    /\ transition = tr
    /\ emission = NotebookEmission
    /\ id2state = NotebookId2state
    /\ state2id = NotebookState2id
    /\ word2id = NotebookWord2id
    /\ id2word = NotebookId2word
    /\ heap = <<>>
    /\ g_h = Unbound /\ g_h_total = Unbound /\ g_v_total = Unbound
    /\ h = Unbound /\ v = Unbound /\ h_total = Unbound /\ v_total = Unbound
    /\ exc = "None"
    /\ returned = <<>>
    /\ stdout = <<>>
    /\ other = th

KernelWith(tr) == KernelOf(tr, NoThread)

Kernel == KernelWith(NotebookTransition)

Entropy == [seeded |-> FALSE, stream |-> <<>>, pos |-> 0]

Seeded(s) == [seeded |-> TRUE, stream |-> s, pos |-> 0]

\* The generate cell (lines 466-488) run once, on an unseeded generator.
Init ==
    /\ Kernel
    /\ rng = Entropy
    /\ pc = "cell8"

Next ==
    \/ Call
    \/ \E u \in Uniform : InitialDraw(u)
    \/ WhileTest
    \/ \E u \in Uniform : Emit(u, MaxLen)
    \/ pc = "l478" /\ Len(heap[h_total]) < MaxLen
                   /\ \E u \in Uniform : Transit(u, MaxLen)
    \/ \E u \in Uniform : FinalEmit(u, MaxLen)
    \/ Return

Spec == Init /\ [][Next]_vars

\* The chain-only cell and its print (lines 322-330, 354-355) run once.
ChainInitial ==
    /\ Kernel
    /\ rng = Entropy
    /\ pc = "cell6"

ChainNext ==
    \/ \E u \in Uniform : ChainInit(u)
    \/ ChainTest
    \/ pc = "l329" /\ Len(heap[g_h_total]) < MaxLen
                   /\ \E u \in Uniform : ChainStep(u, MaxLen)
    \/ Print7

ChainSpec == ChainInitial /\ [][ChainNext]_vars

\* The generate cell run once on either transition table.
TablesInit ==
    /\ \E tr \in {NotebookTransition, UnreachableTransition} : KernelWith(tr)
    /\ rng = Entropy
    /\ pc = "cell8"

TablesSpec == TablesInit /\ [][Next]_vars

\* The generate cell run to its end with the lists cut to a window, under the
\* fairness of the draws: a successor of positive probability of a state met
\* again and again is chosen in the end.
LiveNext ==
    \/ Call
    \/ \E u \in Uniform : InitialDraw(u)
    \/ WhileTest
    \/ \E u \in Uniform : Emit(u, Window)
    \/ \E u \in Uniform : Transit(u, Window)
    \/ \E u \in Uniform : FinalEmit(u, Window)
    \/ Return

TransitTo(a, b) == \E u \in Uniform : Transit(u, Window) /\ h = a /\ h' = b

\* Five of the table's eleven positive entries; the fairness of these draws
\* is all the specification asks of the generator.
FairEdges == {<<0, 3>>, <<1, 4>>, <<2, 3>>, <<3, 4>>, <<4, 5>>}

Fairness ==
    /\ WF_vars(LiveNext)
    /\ \A e \in FairEdges : SF_vars(TransitTo(e[1], e[2]))

LiveSpec == Init /\ [][LiveNext]_vars /\ Fairness

\* The generate cell run MaxCalls times, the generator put back to the same
\* seeded state before each run.
SeedGrid == {0, 50, 95}

\* variates that make the draws Subject, 'I', Verb, 'likes', Object, 'dogs',
\* <EOS>, '.'
ScenarioStream == <<0, 0, 30, 0, 50, 70, 0, 0>>

\* variates that make the draws Adjective, 'adorable', Object, 'Jack', <EOS>,
\* '.'
AdorableJackStream == <<70, 75, 50, 0, 0, 0>>

\* variates that make the draws Subject, 'dogs', Verb, 'loves', Adverb,
\* 'extremely', Adjective, 'adorable', Subject, 'cats', Verb, 'loves', Adverb,
\* 'really', Verb, 'likes', Adjective, 'adorable', Object, 'dogs', <EOS>, '.'
TwoSubjectsStream ==
    <<0, 90, 30, 30, 30, 25, 0, 75, 0, 80, 30, 30, 30, 0, 30, 0, 0, 75, 50, 70,
      0, 0>>

Streams ==
    {ScenarioStream, AdorableJackStream, TwoSubjectsStream}
        \cup [1..StreamLen -> SeedGrid]

\* np.random.set_state(saved state), then the cell again
Reseed ==
    /\ pc = "end"
    /\ Len(returned) < MaxCalls
    /\ rng' = [rng EXCEPT !.pos = 0]
    /\ pc' = "cell8"
    /\ UNCHANGED <<params, other, heap, globals, frame, exc, returned, stdout>>

SeedInit ==
    /\ Kernel
    /\ rng \in {Seeded(s) : s \in Streams}
    /\ pc = "cell8"

SeedNext ==
    \/ Call
    \/ \E u \in Uniform : InitialDraw(u)
    \/ WhileTest
    \/ \E u \in Uniform : Emit(u, Len(rng.stream))
    \/ \E u \in Uniform : Transit(u, Len(rng.stream))
    \/ \E u \in Uniform : FinalEmit(u, Len(rng.stream))
    \/ Return
    \/ Reseed

SeedSpec == SeedInit /\ [][SeedNext]_vars

\* Cell 2 edited and run again between two runs of the generate cell: the
\* labels of indices 4 and 5 exchanged, the three tables left as they are.
AltId2state ==
    (0 :> "Subject") @@ (1 :> "Adjective") @@ (2 :> "Adverb") @@
    (3 :> "Verb") @@ (4 :> "<EOS>") @@ (5 :> "Object")

\* lines 182-183 run again
Rebind ==
    /\ pc = "cell8"
    /\ id2state # AltId2state
    /\ id2state' = AltId2state
    /\ state2id' = InvertDict(id2state')
    /\ UNCHANGED <<initial, transition, emission, word2id, id2word>>
    /\ UNCHANGED <<rng, heap, globals, frame, other, pc, exc, returned, stdout>>

AmbientNext ==
    \/ SeedNext
    \/ Rebind

AmbientSpec == SeedInit /\ [][AmbientNext]_vars

\* The transition cell (lines 267-272) edited to the 6x6 table and run again
\* after a first result.
Widen ==
    /\ pc = "cell8"
    /\ Len(returned) >= 1
    /\ transition = NotebookTransition
    /\ transition' = SquareTransition
    /\ UNCHANGED <<initial, emission, id2state, state2id, word2id, id2word>>
    /\ UNCHANGED <<rng, heap, globals, frame, other, pc, exc, returned, stdout>>

SquareNext ==
    \/ SeedNext
    \/ Widen

\* The generate cell run on the 5x6 table, then on either table, the generator
\* put back to the same seeded state before each run.
SquareSpec == SeedInit /\ [][SquareNext]_vars

\* A thread about to run the generate cell.
Started == [pc |-> "cell8", h |-> Unbound, v |-> Unbound,
            h_total |-> Unbound, v_total |-> Unbound]

\* The interpreter suspends the running thread between two statements and
\* resumes the other one.
Switch ==
    /\ pc # "raised"
    /\ other.pc \notin {"none", "end", "raised"}
    /\ other' = [pc |-> pc, h |-> h, v |-> v,
                 h_total |-> h_total, v_total |-> v_total]
    /\ pc' = other.pc
    /\ h' = other.h
    /\ v' = other.v
    /\ h_total' = other.h_total
    /\ v_total' = other.v_total
    /\ UNCHANGED <<params, rng, heap, globals, exc, returned, stdout>>

\* What a call that the generator leaves without variates has returned.
Starved == << <<>>, <<>> >>

RECURSIVE whileLoop(_, _, _, _, _)
\* lines 475-482 on the variates s[pos + 1], s[pos + 2], ...: the pair of
\* lists returned, or Starved when the variates run out
whileLoop(s, pos, hh, hl, vl) ==
    IF hh # state2id["<EOS>"]
       THEN IF pos + 2 > Len(s) THEN Starved
            ELSE LET vv == choice(num_words, emission[hh], s[pos + 1])
                     hn == choice(num_states, transition[hh], s[pos + 2])
                 IN  whileLoop(s, pos + 2, hn, Append(hl, hn), Append(vl, vv))
       ELSE IF pos + 1 > Len(s) THEN Starved
            ELSE <<hl, Append(vl, choice(num_words, emission[hh], s[pos + 1]))>>

\* generate(initial, transition, emission) run alone on the variates s
generateAlone(s) ==
    IF Len(s) = 0 THEN Starved
    ELSE LET h1 == choice(num_states, initial, s[1])
         IN  whileLoop(s, 1, h1, <<h1>>, <<>>)

\* Two threads run the generate cell on the one generator np.random, which
\* holds the variates of a seed for each of them.
ConcSeeds == {ScenarioStream, AdorableJackStream}

ConcInit ==
    /\ KernelOf(NotebookTransition, Started)
    /\ \E s \in ConcSeeds : rng = Seeded(s \o s)
    /\ pc = "cell8"

ConcNext ==
    \/ Call
    \/ \E u \in Uniform : InitialDraw(u)
    \/ WhileTest
    \/ \E u \in Uniform : Emit(u, Len(rng.stream))
    \/ \E u \in Uniform : Transit(u, Len(rng.stream))
    \/ \E u \in Uniform : FinalEmit(u, Len(rng.stream))
    \/ Return
    \/ Switch

ConcSpec == ConcInit /\ [][ConcNext]_vars

\* Either sampling cell run once on a fresh kernel: the chain-only cell with
\* its print, or the generate cell.
CellsInit ==
    /\ Kernel
    /\ rng = Entropy
    /\ pc \in {"cell6", "cell8"}

CellsNext ==
    \/ \E u \in Uniform : ChainInit(u)
    \/ ChainTest
    \/ pc = "l329" /\ Len(heap[g_h_total]) < MaxLen
                   /\ \E u \in Uniform : ChainStep(u, MaxLen)
    \/ Print7
    \/ g_h_total = Unbound /\ Call
    \/ \E u \in Uniform : InitialDraw(u)
    \/ WhileTest
    \/ \E u \in Uniform : Emit(u, MaxLen)
    \/ pc = "l478" /\ Len(heap[h_total]) < MaxLen
                   /\ \E u \in Uniform : Transit(u, MaxLen)
    \/ \E u \in Uniform : FinalEmit(u, MaxLen)
    \/ Return

CellsSpec == CellsInit /\ [][CellsNext]_vars

\* The variates of s that generate uses for its state draws: the first, the
\* third, ...
Odds(s) == [i \in 1..((Len(s) + 1) \div 2) |-> s[2 * i - 1]]

\* After a result of generate, the generator is seeded with the variates of
\* that run's state draws and the chain-only cell is run.
ToChain ==
    /\ pc = "end"
    /\ Len(returned) = 1
    /\ rng' = Seeded(Odds(rng.stream))
    /\ pc' = "cell6"
    /\ UNCHANGED <<params, other, heap, globals, frame, exc, returned, stdout>>

PairInit ==
    /\ Kernel
    /\ rng \in {Seeded(s) : s \in Streams}
    /\ pc = "cell8"

PairNext ==
    \/ returned = <<>> /\ Call
    \/ \E u \in Uniform : InitialDraw(u)
    \/ WhileTest
    \/ \E u \in Uniform : Emit(u, Len(rng.stream))
    \/ \E u \in Uniform : Transit(u, Len(rng.stream))
    \/ \E u \in Uniform : FinalEmit(u, Len(rng.stream))
    \/ Return
    \/ ToChain
    \/ \E u \in Uniform : ChainInit(u)
    \/ ChainTest
    \/ \E u \in Uniform : ChainStep(u, Len(rng.stream) + 1)
    \/ Print7

\* The generate cell on a seeded generator, then the chain-only cell on the
\* same state draws.
PairSpec == PairInit /\ [][PairNext]_vars

\* variates that make the draws Subject, 'I', Verb, 'likes', Adverb, 'pretty',
\* Adjective, 'pretty', Object, 'Jack', <EOS>, '.'
PrettyAdverbStream == <<0, 0, 30, 0, 30, 50, 0, 0, 50, 0, 0, 0>>

\* variates that make the draws Subject, 'I', Verb, 'likes', Adjective,
\* 'pretty', Adjective, 'pretty', Object, 'Jack', <EOS>, '.'
PrettyAdjectiveStream == <<0, 0, 30, 0, 0, 0, 40, 0, 50, 0, 0, 0>>

HiddenStreams ==
    {ScenarioStream, AdorableJackStream, PrettyAdverbStream,
     PrettyAdjectiveStream}

\* The generator seeded anew before another run of the generate cell.
SeedAgain ==
    /\ pc = "end"
    /\ Len(returned) < MaxCalls
    /\ \E s \in HiddenStreams : rng' = Seeded(s)
    /\ pc' = "cell8"
    /\ UNCHANGED <<params, other, heap, globals, frame, exc, returned, stdout>>

HiddenInit ==
    /\ Kernel
    /\ rng \in {Seeded(s) : s \in HiddenStreams}
    /\ pc = "cell8"

HiddenNext ==
    \/ Call
    \/ \E u \in Uniform : InitialDraw(u)
    \/ WhileTest
    \/ \E u \in Uniform : Emit(u, Len(rng.stream))
    \/ \E u \in Uniform : Transit(u, Len(rng.stream))
    \/ \E u \in Uniform : FinalEmit(u, Len(rng.stream))
    \/ Return
    \/ SeedAgain

\* The generate cell run MaxCalls times, the generator seeded before each
\* run with one of HiddenStreams.
HiddenSpec == HiddenInit /\ [][HiddenNext]_vars

(* ------------------------------- claims ------------------------------- *)

\* the lists generate holds, once line 473-474 has bound them
hs == heap[h_total]
vs == heap[v_total]
Bound == h_total # Unbound

\* C1: when generate returns, the last element of h_total is <EOS> (index 5)
\* and no earlier element is: the terminal state occurs once, in last place.
C1_TerminalOnceAndLast ==
    pc = "l482" =>
        /\ Len(hs) >= 1
        /\ hs[Len(hs)] = 5
        /\ \A t \in 1..(Len(hs) - 1) : hs[t] # 5

C1_Witness == pc = "l482" /\ Len(hs) = 4 /\ hs[1] = 0

\* C2: when generate returns, h_total and v_total have the same length and
\* every v_total[t] has positive probability in the emission row of
\* h_total[t], the terminal state's word included; at every loop-head test
\* h_total is one longer than v_total.
C2_Aligned ==
    /\ pc = "l482" =>
          /\ Len(hs) = Len(vs)
          /\ \A t \in 1..Len(hs) : emission[hs[t]][vs[t]] > 0
          /\ emission[5][vs[Len(vs)]] > 0
    /\ pc = "l475" => Len(hs) = Len(vs) + 1

C2_Witness == pc = "l482" /\ Len(vs) = 4 /\ vs[4] = 14 /\ hs[4] = 5

\* C3: in every state of a generate run, every element of h_total is an
\* index in 0..5 and a key of id2state, and every element of v_total is an
\* index in 0..14 and a key of id2word.
C3_IndicesInRange ==
    Bound =>
        /\ \A t \in 1..Len(hs) : hs[t] \in 0..5 /\ hs[t] \in DOMAIN id2state
        /\ \A t \in 1..Len(vs) : vs[t] \in 0..14 /\ vs[t] \in DOMAIN id2word

C3_Witness ==
    /\ pc = "end"
    /\ \E t \in 1..Len(vs) : vs[t] = 13 /\ hs[t] = 0
    /\ \E t \in 1..Len(hs) : hs[t] = 3

\* C7: no zero-probability entry is ever selected: the first state has
\* positive initial probability (it is Subject or Adjective), consecutive
\* states have positive transition probability, and every word has positive
\* emission probability in its state's row.
C7_NoZeroProbability ==
    Bound =>
        /\ initial[hs[1]] > 0
        /\ hs[1] \in {state2id["Subject"], state2id["Adjective"]}
        /\ \A t \in 1..(Len(hs) - 1) : transition[hs[t]][hs[t + 1]] > 0
        /\ \A t \in 1..Len(vs) : emission[hs[t]][vs[t]] > 0

C7_Witness == pc = "l482" /\ hs = <<1, 1, 4, 5>>

\* C8: the tables are row-stochastic in hundredths: initial sums to 100, each
\* of the 5 transition rows and each of the 6 emission rows sums to 100, and
\* no entry is negative.
RowSum(p) == cumsum(p, Cardinality(DOMAIN p) - 1)

C8_RowStochastic ==
    /\ RowSum(initial) = 100
    /\ \A i \in DOMAIN initial : initial[i] >= 0
    /\ DOMAIN transition = 0..4
    /\ \A k \in 0..4 : /\ RowSum(transition[k]) = 100
                       /\ \A j \in DOMAIN transition[k] : transition[k][j] >= 0
    /\ DOMAIN emission = 0..5
    /\ \A k \in 0..5 : /\ RowSum(emission[k]) = 100
                       /\ \A j \in DOMAIN emission[k] : emission[k][j] >= 0

C8_Witness == pc = "l478" /\ h = 3 /\ v = 5 /\ exc = "None"

\* C4: on the notebook's tables, under the fairness of the draws, the while
\* loop exits and generate reaches its return.
C4_Terminates == <>(pc = "l482")

C4_Witness == pc = "l482" /\ h = 5 /\ v = 14 /\ returned = <<>>

\* C5: with the generator scripted to the draws Subject, 'I', Verb, 'likes',
\* Object, 'dogs', <EOS>, '.', generate returns h_total = [0, 3, 4, 5] and
\* v_total = [0, 4, 13, 14], built in that order, and the words are rendered
\* "I likes dogs .".
IsPrefix(s, t) == Len(s) <= Len(t) /\ \A i \in 1..Len(s) : s[i] = t[i]

C5_Scenario ==
    rng.stream = ScenarioStream =>
        /\ Bound => /\ IsPrefix(hs, <<0, 3, 4, 5>>)
                    /\ IsPrefix(vs, <<0, 4, 13, 14>>)
        /\ pc = "l482" => hs = <<0, 3, 4, 5>> /\ vs = <<0, 4, 13, 14>>
        /\ pc = "end" =>
              /\ heap[g_h_total] = <<0, 3, 4, 5>>
              /\ heap[g_v_total] = <<0, 4, 13, 14>>
              /\ stdout[Len(stdout)] = "I likes dogs ."

C5_Witness ==
    /\ rng.stream = ScenarioStream
    /\ pc = "end"
    /\ stdout = <<"[0, 3, 4, 5]", "Subject Verb Object <EOS>",
                  "[0, 4, 13, 14]", "I likes dogs .">>

\* C6: two generate calls on the same tables whose generators are in the same
\* state return the same h_total and the same v_total.
C6_Deterministic ==
    \A i \in DOMAIN returned : \A j \in DOMAIN returned :
        /\ heap[returned[i][1]] = heap[returned[j][1]]
        /\ heap[returned[i][2]] = heap[returned[j][2]]

C6_Witness ==
    /\ Len(returned) = 2
    /\ Len(heap[returned[2][1]]) = 3
    /\ returned[1] # returned[2]

\* C9: no step of a generate call changes initial, transition, emission or
\* the label maps, and no step changes a list an earlier call returned: each
\* call returns two lists of its own.
C9_Frame ==
    [][ /\ params' = params
        /\ \A i \in DOMAIN returned :
              /\ returned'[i] = returned[i]
              /\ heap'[returned[i][1]] = heap[returned[i][1]]
              /\ heap'[returned[i][2]] = heap[returned[i][2]]
        /\ \A i \in DOMAIN returned' : \A j \in DOMAIN returned' :
              i # j => {returned'[i][1], returned'[i][2]}
                          \cap {returned'[j][1], returned'[j][2]} = {}
        /\ \A i \in DOMAIN returned' : returned'[i][1] # returned'[i][2]
      ]_vars

C9_Witness ==
    /\ Len(returned) = 2
    /\ pc = "end"
    /\ Cardinality({returned[1][1], returned[1][2],
                    returned[2][1], returned[2][2]}) = 4
    /\ initial = NotebookInitial /\ emission = NotebookEmission

\* the states that positive-probability transitions reach from S
RECURSIVE Closure(_)
Closure(S) ==
    LET N == S \cup {j \in DOMAIN initial :
                        \E i \in S \cap DOMAIN transition : transition[i][j] > 0}
    IN  IF N = S THEN S ELSE Closure(N)

ReachableStates == Closure({i \in DOMAIN initial : initial[i] > 0})

TerminalUnreachable ==
    \A i \in ReachableStates \cap DOMAIN transition : transition[i][5] = 0

\* C10: on a table whose terminal state has zero incoming probability from
\* every reachable state, no sampling draw is ever made: the table is
\* rejected with UnreachableTerminal first.
C10_RejectedBeforeSampling ==
    TerminalUnreachable =>
        /\ h = Unbound
        /\ pc = "raised" => exc = "UnreachableTerminal"

\* The list every element of which is followed as the Object row prescribes.
ObjectThenEnd(l) ==
    /\ \A t \in 1..(Len(l) - 1) : l[t] = 4 => l[t + 1] = 5
    /\ \A t \in 1..Len(l) : l[t] = 5 => t > 1 /\ l[t - 1] = 4
    /\ (Len(l) > 0 /\ l[Len(l)] = 5) =>
           Cardinality({t \in 1..Len(l) : l[t] = 4}) = 1

\* C13: in every trajectory of generate and of the chain-only cell on the
\* notebook's tables, Object is immediately followed by <EOS>, the element
\* before <EOS> is Object, and a finished trajectory holds Object exactly once.
C13_ObjectThenEnd ==
    /\ transition[4] = ZeroBased(<<0, 0, 0, 0, 0, 100>>)
    /\ g_h_total # Unbound => ObjectThenEnd(heap[g_h_total])
    /\ Bound => ObjectThenEnd(hs)

\* the chain-only cell has printed Subject Verb Object <EOS>
C13_Witness ==
    /\ pc = "cell8"
    /\ ~Bound
    /\ g_h_total # Unbound
    /\ heap[g_h_total] = <<0, 3, 4, 5>>
    /\ stdout = <<"[0, 3, 4, 5]", "Subject Verb Object <EOS>">>

\* C14: every v_total that generate returns on the notebook's tables ends with
\* '.' (14) and holds 14 nowhere else; only the <EOS> row of emission gives
\* '.' a positive probability, and it gives it 1.
C14_EndMarkerLast ==
    /\ \A k \in 0..4 : emission[k][14] = 0
    /\ emission[5][14] = 100
    /\ Bound =>
          /\ \A t \in 1..Len(vs) :
                vs[t] = 14 => t = Len(vs) /\ pc \in {"l482", "end"}
          /\ pc \in {"l482", "end"} => Len(vs) > 0 /\ vs[Len(vs)] = 14
    /\ \A i \in 1..Len(returned) :
          LET r == heap[returned[i][2]]
          IN  Len(r) > 0 /\ \A t \in 1..Len(r) : r[t] = 14 <=> t = Len(r)

\* generate has returned the words 'I likes dogs .'
C14_Witness ==
    /\ pc = "end"
    /\ Len(returned) = 1
    /\ heap[returned[1][2]] = <<0, 4, 13, 14>>

RECURSIVE designLoop(_, _, _, _)
\* The loop of the design-level algorithm on the variates s[pos + 1], ...:
\* emit and append the pair; stop if the state is the terminal one; otherwise
\* transit.  <<>> when the variates run out.
designLoop(s, pos, cur, traj) ==
    IF pos + 1 > Len(s) THEN <<>>
    ELSE LET obs  == choice(num_words, emission[cur], s[pos + 1])
             next == Append(traj, <<cur, obs>>)
         IN  IF cur = 5 THEN next
             ELSE IF pos + 2 > Len(s) THEN <<>>
             ELSE designLoop(s, pos + 2,
                             choice(num_states, transition[cur], s[pos + 2]),
                             next)

designGenerate(s) ==
    IF Len(s) = 0 THEN <<>>
    ELSE designLoop(s, 1, choice(num_states, initial, s[1]), <<>>)

\* C15: generate takes the variates in the order state 1, word 1, state 2,
\* word 2, ..., ending with the word of the terminal state and no draw after
\* it; what it returns is the trajectory of the design-level algorithm (emit,
\* stop if terminal, else transit) on the same variates.
C15_DrawOrder ==
    pc \in {"l475", "l476", "l478", "l480", "l482", "end"} =>
        LET s == rng.stream IN
        /\ rng.pos = Len(hs) + Len(vs)
        /\ hs[1] = choice(num_states, initial, s[1])
        /\ \A t \in 1..Len(vs) :
              vs[t] = choice(num_words, emission[hs[t]], s[2 * t])
        /\ \A t \in 1..(Len(hs) - 1) :
              hs[t + 1] = choice(num_states, transition[hs[t]], s[2 * t + 1])
        /\ Len(vs) \in {Len(hs) - 1, Len(hs)}
        /\ pc \in {"l482", "end"} =>
              /\ Len(vs) = Len(hs)
              /\ [t \in 1..Len(hs) |-> <<hs[t], vs[t]>>] = designGenerate(s)

\* generate has returned a trajectory of four pairs after eight draws
C15_Witness ==
    /\ pc = "end"
    /\ rng.pos = 8
    /\ Len(hs) = 4
    /\ designGenerate(rng.stream) = <<<<0, 0>>, <<3, 4>>, <<4, 13>>, <<5, 14>>>>

\* C16: on the notebook's tables <EOS> is reachable by positive-probability
\* transitions from every state of positive initial probability and from
\* every state a run of generate is in or has been in.
C16_TerminalStaysReachable ==
    /\ \A i \in DOMAIN initial : initial[i] > 0 => 5 \in Closure({i})
    /\ \A i \in ReachableStates : 5 \in Closure({i})
    /\ h # Unbound => h \in ReachableStates /\ 5 \in Closure({h})
    /\ Bound => \A t \in 1..Len(hs) :
                   hs[t] \in ReachableStates /\ 5 \in Closure({hs[t]})

\* a run is in Adverb, two transitions away from <EOS> at the least
C16_Witness ==
    /\ pc = "l478"
    /\ h = 2
    /\ hs = <<0, 2>>
    /\ 5 \notin {j \in DOMAIN initial : transition[2][j] > 0}

\* the states one positive-probability transition away from i
Successors(i) == {j \in DOMAIN initial : transition[i][j] > 0}

\* C17: the length of h_total has no bound: the non-terminal states a run
\* reaches hold a positive-probability cycle, a run that is about to draw its
\* next state can do so and lengthen h_total by one whatever its length, and
\* generate never reports GenerationLengthExceeded.
C17_NoLengthBound ==
    /\ \E i \in ReachableStates \ {5} : i \in Closure(Successors(i))
    /\ exc # "GenerationLengthExceeded"
    /\ pc = "l478" =>
          ENABLED (\E u \in Uniform :
                      /\ Transit(u, Len(hs) + 1)
                      /\ pc' = "l475"
                      /\ Len(heap'[h_total]) = Len(hs) + 1)

\* a run that has gone round the cycle Adjective -> Adjective up to the bound
\* of the model
C17_Witness ==
    /\ pc = "l478"
    /\ Len(hs) = MaxLen
    /\ \A t \in 1..Len(hs) : hs[t] = 1
    /\ transition[1][1] > 0

\* C18: id2state and state2id are inverse bijections between 0..5 and the
\* state labels, id2word and word2id between 0..14 and the words; the cell
\* transition[state2id['Subject']][state2id['Verb']] is the cell
\* transition[0][3].
C18_MapsInverse ==
    /\ DOMAIN id2state = 0..5
    /\ \A i \in 0..5 : state2id[id2state[i]] = i
    /\ \A l \in DOMAIN state2id : id2state[state2id[l]] = l
    /\ DOMAIN id2word = 0..14
    /\ \A j \in 0..14 : word2id[id2word[j]] = j
    /\ \A w \in DOMAIN word2id : id2word[word2id[w]] = w
    /\ <<state2id["Subject"], state2id["Verb"]>> = <<0, 3>>
    /\ transition[state2id["Subject"]][state2id["Verb"]] = transition[0][3]

\* a result rendered through both maps
C18_Witness ==
    /\ pc = "end"
    /\ stdout = <<"[0, 3, 4, 5]", "Subject Verb Object <EOS>",
                  "[0, 4, 13, 14]", "I likes dogs .">>

\* C19: generate can return a sentence without a Verb: scripted to the draws
\* Adjective, 'adorable', Object, 'Jack', <EOS>, '.', it returns h_total =
\* [1, 4, 5] and v_total = [11, 2, 14], printed as "Adjective Object <EOS>" and
\* "adorable Jack .".
C19_AdorableJack ==
    rng.stream = AdorableJackStream =>
        /\ Bound => /\ IsPrefix(hs, <<1, 4, 5>>)
                    /\ IsPrefix(vs, <<11, 2, 14>>)
                    /\ \A t \in 1..Len(hs) : hs[t] # state2id["Verb"]
        /\ pc \in {"l482", "end"} => hs = <<1, 4, 5>> /\ vs = <<11, 2, 14>>
        /\ \A i \in 1..Len(returned) :
              /\ heap[returned[i][1]] = <<1, 4, 5>>
              /\ heap[returned[i][2]] = <<11, 2, 14>>
              /\ SubSeq(stdout, 4 * i - 3, 4 * i) =
                    <<"[1, 4, 5]", "Adjective Object <EOS>",
                      "[11, 2, 14]", "adorable Jack .">>

C19_Witness ==
    /\ rng.stream = AdorableJackStream
    /\ pc = "end"
    /\ heap[returned[1][1]] = <<1, 4, 5>>
    /\ stdout[2] = "Adjective Object <EOS>"
    /\ stdout[4] = "adorable Jack ."

\* C20: generate can return the sample of two Subjects: scripted to the draws
\* of its states and words, it returns the state sequence printed as "Subject
\* Verb Adverb Adjective Subject Verb Adverb Verb Adjective Object <EOS>" and
\* the words printed as "dogs love extremely adorable cats love really like
\* adorable dogs .".
C20_TwoSubjects ==
    (rng.stream = TwoSubjectsStream /\ pc = "end") =>
        /\ heap[g_h_total] = <<0, 3, 2, 1, 0, 3, 2, 3, 1, 4, 5>>
        /\ stdout[2] = "Subject Verb Adverb Adjective Subject Verb Adverb " \o
                       "Verb Adjective Object <EOS>"
        /\ stdout[4] = "dogs love extremely adorable cats love really " \o
                       "like adorable dogs ."

\* C12: two threads that run generate at the same time, each meaning to draw
\* the variates of its own seed, do not interfere: whatever the interleaving,
\* each call returns what generate run alone on that seed returns.
C12_NoInterference ==
    \A i \in 1..Len(returned) :
        <<heap[returned[i][1]], heap[returned[i][2]]>> =
            generateAlone(SubSeq(rng.stream, 1, Len(rng.stream) \div 2))

\* C11: generate is a function of its three tables and the generator's
\* draws alone: two calls on the same tables and the same draws return the
\* same trajectory, whatever the global state2id holds.
C11_NoAmbientState ==
    Len(returned) >= 2 =>
        /\ heap[returned[2][1]] = heap[returned[1][1]]
        /\ heap[returned[2][2]] = heap[returned[1][2]]

\* C21: generate reads transition[h] for h in 0..4 only, so the 5x6 table is
\* never indexed out of range, and on the 6x6 table with an identity row for
\* <EOS> it returns what it returns on the 5x6 table.
C21_TerminalRowUnread ==
    /\ pc = "l478" => /\ h \in 0..4
                      /\ h \in DOMAIN NotebookTransition
                      /\ transition[h] = NotebookTransition[h]
    /\ exc # "IndexError"
    /\ \A i \in DOMAIN returned : \A j \in DOMAIN returned :
          /\ heap[returned[i][1]] = heap[returned[j][1]]
          /\ heap[returned[i][2]] = heap[returned[j][2]]

\* a second result, returned on the 6x6 table
C21_Witness ==
    /\ Len(returned) >= 2
    /\ DOMAIN transition = 0..5
    /\ transition[5][5] = 100
    /\ heap[returned[Len(returned)][1]] = <<0, 3, 4, 5>>
    /\ pc = "end"

\* C22: on the same tables and the same state draws the chain-only cell
\* builds the h_total that generate returned, whatever the emission draws of
\* generate were; so the two produce the same state sequences.
C22_SameStates ==
    Len(returned) = 1 =>
        LET r == heap[returned[1][1]] IN
        /\ pc \in {"l328", "l329", "cell7"} =>
              /\ IsPrefix(heap[g_h_total], r)
              /\ rng.pos = Len(heap[g_h_total])
        /\ pc = "cell7" => heap[g_h_total] = r
        /\ pc = "cell8" =>
              /\ heap[g_h_total] = r
              /\ g_h_total # returned[1][1]
              /\ Len(stdout) = 6
              /\ stdout[5] = stdout[1]
              /\ stdout[6] = stdout[2]

\* the chain-only cell has rebuilt the eleven states of a result of generate
C22_Witness ==
    /\ pc = "cell8"
    /\ Len(returned) = 1
    /\ g_h_total # returned[1][1]
    /\ heap[g_h_total] = <<0, 3, 2, 1, 0, 3, 2, 3, 1, 4, 5>>
    /\ heap[returned[1][2]] = <<13, 5, 8, 11, 12, 5, 7, 4, 11, 13, 14>>

\* a run past its loop, or returned: h_total is complete
Complete == Bound /\ pc \in {"l480", "l482", "end"}

\* C23: every h_total generate returns on the notebook's tables has at least
\* three elements: initial gives Object and <EOS> probability 0 and only the
\* Object row leads to <EOS>; the only result of three elements is Adjective,
\* Object, <EOS>.
C23_AtLeastThree ==
    /\ initial[4] = 0 /\ initial[5] = 0
    /\ \A k \in 0..3 : transition[k][5] = 0
    /\ Complete => /\ Len(hs) >= 3
                   /\ hs # <<5>>
                   /\ Len(hs) = 3 => hs = <<1, 4, 5>>
    /\ \A i \in DOMAIN returned :
          /\ Len(heap[returned[i][1]]) >= 3
          /\ Len(heap[returned[i][2]]) >= 3

\* the shortest result has been returned
C23_Witness ==
    /\ pc = "end"
    /\ Len(returned) = 1
    /\ heap[returned[1][1]] = <<1, 4, 5>>
    /\ Len(heap[returned[1][2]]) = 3

\* C24: v_total does not determine h_total: 'pretty' has a positive
\* probability in the Adjective row and in the Adverb row, and generate
\* returns the words 'I likes pretty pretty Jack .' both with the states
\* Subject Verb Adverb Adjective Object <EOS> and with the states Subject Verb
\* Adjective Adjective Object <EOS>.
C24_Hidden ==
    /\ emission[1][9] > 0 /\ emission[2][9] > 0
    /\ pc \in {"l482", "end"} =>
          /\ rng.stream = PrettyAdverbStream =>
                hs = <<0, 3, 2, 1, 4, 5>> /\ vs = <<0, 4, 9, 9, 2, 14>>
          /\ rng.stream = PrettyAdjectiveStream =>
                hs = <<0, 3, 1, 1, 4, 5>> /\ vs = <<0, 4, 9, 9, 2, 14>>

\* two results with the same words and different states
C24_Witness ==
    /\ Len(returned) >= 2
    /\ heap[returned[1][2]] = heap[returned[2][2]]
    /\ heap[returned[1][1]] # heap[returned[2][1]]
    /\ heap[returned[1][1]][Len(heap[returned[1][1]])] = 5
    /\ heap[returned[2][1]][Len(heap[returned[2][1]])] = 5
    /\ \E t \in 1..Len(heap[returned[1][2]]) :
          /\ heap[returned[1][2]][t] = word2id["pretty"]
          /\ {heap[returned[1][1]][t], heap[returned[2][1]][t]} =
                {state2id["Adjective"], state2id["Adverb"]}

====
